---- MODULE Spec2Model ----
(***************************************************************************)
(* Model of stock_monitor.py: the per-symbol fetchers, the close-of-day    *)
(* rule evaluator, the concurrent batch fetch, and the intraday /          *)
(* close-of-day invocations with the daily dedup file alerted_today.json.  *)
(*                                                                         *)
(* Units.  Raw provider prices are integers in 1/10000 of a currency unit; *)
(* record prices (round(x, 3)) are integers in 1/1000.  Percentages and    *)
(* ratios (round(x, 2)) are integers in 1/100.  Python's None is the empty *)
(* sequence <<>> and a present value v is <<v>>.                           *)
(***************************************************************************)
EXTENDS Integers, Sequences, FiniteSets, TLC

VARIABLES
    \* ---- rule evaluation of one symbol (SpecEval) ----
    e_pc,        \* "idle" | "input" | "fetched" | "dropped" | "checked" | "rechecked"
    variant,     \* "close" (get_close_data_*) | "daily" (get_daily_data_*)
    hist,        \* the provider's bar history, oldest first, current session last
    rec,         \* the record _fetch returned: <<>> (None) or <<record>>
    alerts       \* the list check_close_alerts returned

evalVars == <<e_pc, variant, hist, rec, alerts>>

VARIABLES
    \* ---- one concurrent batch fetch, get_intraday_* / get_close_data_* (SpecFetch) ----
    f_pc,        \* main thread: "idle" | "submit" | "collect" | "returned" | "raised"
    f_kind,      \* "intraday" | "close": which fetcher runs the batch
    f_next,      \* number of symbols already handed to executor.submit
    f_status,    \* per symbol: "new" | "queued" | "running" | "finished"
    f_resp,      \* per symbol: the provider response its task received (None before)
    f_future,    \* per symbol: the future's outcome, [raised, value] (None before)
    f_yielded,   \* symbols whose future as_completed has already yielded
    f_results    \* the results list

fetchVars == <<f_pc, f_kind, f_next, f_status, f_resp, f_future, f_yielded, f_results>>

VARIABLES
    \* ---- invocations of the script and the dedup file (Spec) ----
    today,       \* the calendar date datetime.now() formats, a day number
    file,        \* alerted_today.json: [kind, date, symbols], kind "none" | "entry" | "corrupt"
    sent,        \* every message handed to send_to_wechat so far
    recorded,    \* every successful write of save_alerted_today so far
    pc,          \* per process: "idle" | "loop" | "send" | "save_write" | "done" | "crashed"
    open,        \* per process: the markets open_status holds open
    targets,     \* per process: the markets still to be visited, current one first
    alerted,     \* per process: alerted_today, as loaded in this pass
    triggered,   \* per process: the sorted triggered records of this pass
    savedate,    \* per process: `today` of save_alerted_today
    existing,    \* per process: `existing` of save_alerted_today
    passLog,     \* per process: [mkt, k, msgs] of every finished pass of the invocation
    ops          \* per process: the calls of the invocation so far, in program order:
                 \* "fetch" (a batch fetch, returned), "load", "lookup", "send", "write"

procVars == <<pc, open, targets, alerted, triggered, savedate, existing, passLog, ops>>
mainVars == <<today, file, sent, recorded, procVars>>

VARIABLES
    \* ---- the filter and the table of one intraday pass (SpecPass) ----
    i_pc,        \* "idle" | "input" | "filtered" | "formatted" | "reported" | "sent"
    i_stocks,    \* the records the batch fetch returned
    i_alerted,   \* alerted_today, as load_alerted_today returned it
    i_triggered, \* triggered
    i_lines      \* alert_lines (alert_blocks in SpecClose)

passVars == <<i_pc, i_stocks, i_alerted, i_triggered, i_lines>>

vars == <<evalVars, fetchVars, mainVars, passVars>>

-----------------------------------------------------------------------------
(* Program constants *)

\* PRICE_CHANGE_THRESHOLD = 5.0 (percent), in hundredths of a percent
PRICE_CHANGE_THRESHOLD == 500
\* VOLUME_MULTIPLIER = 1.8, in hundredths
VOLUME_MULTIPLIER == 180
\* hist.iloc[-31:-1]: at most 30 bars before the current session
CloseWindow == 30
\* hist["Volume"].iloc[-8:-1]: at most 7 bars before the current session
DailyWindow == 7
\* len(hist) < 5 -> None
MinBars == 5

(* Bounds of the model *)

\* number of symbols in the batch of SpecFetch
BatchSize == 3
\* width of the worker pool in SpecFetch (max_workers, 8 or 5 in the source,
\* scaled down so that the pool is narrower than the batch)
PoolWidth == 2

\* longest bar history the provider returns in SpecEval
MaxBars == 6
\* calendar dates in one behaviour of Spec
MaxDay == 2
\* longest bar history the provider returns in SpecWindow: the current
\* session, a full 30-session window and two sessions older than the window
MaxHistory == 33

-----------------------------------------------------------------------------
(* Helpers: arithmetic of the fetchers *)

None == <<>>
Some(v) == <<v>>

Abs(x) == IF x < 0 THEN -x ELSE x

Max2(a, b) == IF a >= b THEN a ELSE b

\* round(n / d) to the nearest integer, ties to the even neighbour (Python's
\* round on an exactly representable tie), for d > 0 and any integer n.
RoundHalfEven(n, d) ==
    LET q == n \div d
        r == n % d
    IN  IF 2 * r < d THEN q
        ELSE IF 2 * r > d THEN q + 1
        ELSE IF q % 2 = 0 THEN q ELSE q + 1

\* round(float(x), 3) of a raw price: 1/10000 units to 1/1000 units
Round3(raw) == RoundHalfEven(raw, 10)

\* round(float(num / den), 2), in hundredths
Round2(num, den) == RoundHalfEven(100 * num, den)

WindowBars_WithCurrent(h, w) == SubSeq(h, Max2(1, Len(h) - w + 1), Len(h))

\* hist.iloc[-(w+1):-1]: the bars before the last one, at most w of them
WindowBars(h, w) == SubSeq(h, Max2(1, Len(h) - w), Len(h) - 1)

RECURSIVE SumVolume(_)
SumVolume(bars) ==
    IF bars = <<>> THEN 0 ELSE bars[1].volume + SumVolume(Tail(bars))

RECURSIVE MaxClose(_)
MaxClose(bars) ==
    IF Len(bars) = 1 THEN bars[1].close
    ELSE Max2(bars[1].close, MaxClose(Tail(bars)))

RECURSIVE MinClose(_)
MinClose(bars) ==
    IF Len(bars) = 1 THEN bars[1].close
    ELSE LET m == MinClose(Tail(bars))
         IN  IF bars[1].close <= m THEN bars[1].close ELSE m

\* current_vol / avg_vol if avg_vol > 0 else 0, then round(float(.), 2).
\* avg_vol = sum / n is the mean of the window's volumes.
VolRatioOrZero(vol, window) ==
    LET sum == SumVolume(window)
        n   == Len(window)
    IN  IF sum > 0 THEN Round2(vol * n, sum) ELSE 0

-----------------------------------------------------------------------------
(* The per-symbol fetchers on a history *)

\* A provider response to history(): err = TRUE is a raised exception
\* (timeout, rate limit, malformed payload), otherwise bars is the history.
HistOk(h) == [err |-> FALSE, bars |-> h]
HistErr == [err |-> TRUE, bars |-> <<>>]

\* get_close_data_us._fetch (the hk and a variants compute the same record)
FetchClose(symbol, market, resp) ==
    IF resp.err THEN None
    ELSE IF Len(resp.bars) < MinBars THEN None
    ELSE
      LET h       == resp.bars
          cur     == h[Len(h)]
          hist_30 == WindowBars(h, CloseWindow)
      IN  Some([symbol     |-> symbol,
                market     |-> market,
                price      |-> Round3(cur.close),
                volume     |-> cur.volume,
                avg_vol    |-> SumVolume(hist_30) \div Len(hist_30),
                vol_ratio  |-> Some(VolRatioOrZero(cur.volume, hist_30)),
                max_30d    |-> Round3(MaxClose(hist_30)),
                min_30d    |-> Round3(MinClose(hist_30))])

\* get_daily_data_us._fetch (the hk and a variants compute the same record)
FetchDaily(symbol, market, resp) ==
    IF resp.err THEN None
    ELSE IF Len(resp.bars) < MinBars THEN None
    ELSE
      LET h     == resp.bars
          cur   == h[Len(h)]
          prev  == h[Len(h) - 1]
          hist7 == WindowBars(h, DailyWindow)
      IN  Some([symbol     |-> symbol,
                market     |-> market,
                price      |-> Round3(cur.close),
                change_pct |-> Round2(100 * (cur.close - prev.close), prev.close),
                volume     |-> cur.volume,
                avg_vol    |-> SumVolume(hist7) \div Len(hist7),
                vol_ratio  |-> Some(VolRatioOrZero(cur.volume, hist7))])

-----------------------------------------------------------------------------
(* The rule evaluator *)

\* check_close_alerts: rule 2 (new 30-day high, else new low), then rule 3
\* (volume); the triggered list in the order the code appends.
NewExtreme_TwoIfs(stock) ==
    (IF stock.price >= stock.max_30d
       THEN <<[cond |-> "new_high", value |-> stock.price, ref |-> stock.max_30d]>>
       ELSE <<>>)
    \o
    (IF stock.price <= stock.min_30d
       THEN <<[cond |-> "new_low", value |-> stock.price, ref |-> stock.min_30d]>>
       ELSE <<>>)

NewExtreme(stock) ==
    IF stock.price >= stock.max_30d
      THEN <<[cond |-> "new_high", value |-> stock.price, ref |-> stock.max_30d]>>
    ELSE IF stock.price <= stock.min_30d
      THEN <<[cond |-> "new_low", value |-> stock.price, ref |-> stock.min_30d]>>
    ELSE <<>>

VolumeSpike(stock) ==
    IF stock.vol_ratio[1] >= VOLUME_MULTIPLIER
      THEN <<[cond |-> "volume", value |-> stock.volume, ref |-> stock.vol_ratio[1]]>>
    ELSE <<>>

check_close_alerts_Accumulating(stock) == alerts \o NewExtreme(stock) \o VolumeSpike(stock)

check_close_alerts(stock) == NewExtreme(stock) \o VolumeSpike(stock)

HasCond(list, c) == \E i \in 1..Len(list) : list[i].cond = c

-----------------------------------------------------------------------------
(* The live-quote fetcher *)

\* `not x` of Python for an optional number: None or 0
Falsy(x) == x = None \/ x[1] = 0

\* A provider response to fast_info: err = TRUE is a raised exception.
QuoteErr ==
    [err |-> TRUE, last_price |-> None, previous_close |-> None,
     last_volume |-> None, avg_volume |-> None]
Quote(cur, prev, vol, avg) ==
    [err |-> FALSE, last_price |-> cur, previous_close |-> prev,
     last_volume |-> vol, avg_volume |-> avg]

\* get_intraday_us._fetch (the hk and a variants compute the same record
\* under the Yahoo symbol of the code)
FetchIntraday(symbol, market, q) ==
    IF q.err THEN None
    ELSE IF Falsy(q.last_price) \/ Falsy(q.previous_close) THEN None
    ELSE
      LET current    == q.last_price[1]
          prev_close == q.previous_close[1]
      IN  Some([symbol     |-> symbol,
                market     |-> market,
                price      |-> Round3(current),
                prev_close |-> Round3(prev_close),
                change_pct |-> Round2(100 * (current - prev_close), prev_close),
                vol_ratio  |-> IF Falsy(q.last_volume) \/ Falsy(q.avg_volume)
                                 THEN None
                                 ELSE Some(Round2(q.last_volume[1], q.avg_volume[1]))])

-----------------------------------------------------------------------------
(* The symbol lists, the processes, and the resting state of each part *)

\* the head of the US list, the batch of SpecFetch
US_STOCKS == <<"GOOG", "PDD", "NIO", "TSM", "AMZN">>

Batch == SubSeq(US_STOCKS, 1, BatchSize)
BatchSet == { Batch[i] : i \in 1..Len(Batch) }
Index(s) == CHOOSE i \in 1..Len(Batch) : Batch[i] = s

\* the symbols Spec monitors in each market (heads of A_STOCKS, HK_STOCKS, US_STOCKS)
Markets == {"a", "hk", "us"}
Universe(m) ==
    CASE m = "a"  -> {"688207", "688256"}
      [] m = "hk" -> {"02513.HK"}
      [] m = "us" -> {"GOOG"}

\* two invocations of the script, each its own process, so that scheduled
\* invocations can follow each other or overlap
Procs == {1, 2}

NoFile == [kind |-> "none", date |-> 0, symbols |-> {}]
Entry(d, syms) == [kind |-> "entry", date |-> d, symbols |-> syms]
\* a file json.load cannot parse, e.g. the empty file open(.., "w") leaves
\* when json.dump fails
Corrupt == [kind |-> "corrupt", date |-> 0, symbols |-> {}]

IdleEval ==
    /\ e_pc = "idle"
    /\ variant = "close"
    /\ hist = HistErr
    /\ rec = None
    /\ alerts = <<>>

IdleFetch ==
    /\ f_pc = "idle"
    /\ f_kind = "intraday"
    /\ f_next = 0
    /\ f_status = [s \in BatchSet |-> "new"]
    /\ f_resp = [s \in BatchSet |-> None]
    /\ f_future = [s \in BatchSet |-> None]
    /\ f_yielded = {}
    /\ f_results = <<>>

IdlePass ==
    /\ i_pc = "idle"
    /\ i_stocks = <<>>
    /\ i_alerted = {}
    /\ i_triggered = <<>>
    /\ i_lines = <<>>

IdleMain ==
    /\ today = 1
    /\ file = NoFile
    /\ sent = {}
    /\ recorded = {}
    /\ pc = [p \in Procs |-> "idle"]
    /\ open = [p \in Procs |-> {}]
    /\ targets = [p \in Procs |-> <<>>]
    /\ alerted = [p \in Procs |-> {}]
    /\ triggered = [p \in Procs |-> <<>>]
    /\ savedate = [p \in Procs |-> 0]
    /\ existing = [p \in Procs |-> {}]
    /\ passLog = [p \in Procs |-> <<>>]
    /\ ops = [p \in Procs |-> <<>>]

-----------------------------------------------------------------------------
(* SpecFetch: the batch fetch under a ThreadPoolExecutor *)

\* Live quotes a task may receive
FetchQuotes ==
    { QuoteErr,
      Quote(None, Some(10000), None, None),
      Quote(Some(0), Some(10000), Some(5), Some(10)),
      Quote(Some(10500), Some(0), Some(5), Some(10)),
      Quote(Some(10500), Some(10000), Some(5), None),
      Quote(Some(9300), Some(10000), Some(30), Some(10)) }

\* Histories a task may receive
FlatBars(n, b) == [i \in 1..n |-> b]
FetchHistories ==
    { HistErr,
      HistOk(<<>>),
      HistOk(FlatBars(4, [close |-> 300000, volume |-> 440])),
      HistOk(FlatBars(5, [close |-> 300000, volume |-> 440])),
      HistOk(FlatBars(5, [close |-> 400000, volume |-> 0])) }

Responses(kind) == IF kind = "intraday" THEN FetchQuotes ELSE FetchHistories

\* What the task of symbol s leaves in its future: _fetch wraps its whole
\* body in try/except Exception and returns None there, so it never raises.
RunFetch_Unguarded(kind, s, resp) ==
    [raised |-> resp.err,
     value  |-> IF kind = "intraday" THEN FetchIntraday(s, "us", resp)
                                     ELSE FetchClose(s, "us", resp)]

RunFetch(kind, s, resp) ==
    [raised |-> FALSE,
     value  |-> IF kind = "intraday" THEN FetchIntraday(s, "us", resp)
                                     ELSE FetchClose(s, "us", resp)]

AfterAttempt_RetryOnFailure(resp) == IF resp.err THEN "queued" ELSE "finished"

\* the state of a task once _fetch has returned: finished whatever the
\* provider answered; _fetch has no loop and nothing resubmits a symbol
AfterAttempt(resp) == "finished"

Running == { s \in BatchSet : f_status[s] = "running" }
Queued  == { s \in BatchSet : f_status[s] = "queued" }

PoolHasFreeWorker_Unbounded == TRUE

PoolHasFreeWorker_Serial == Cardinality(Running) < 1

\* ThreadPoolExecutor(max_workers=...): a queued task is taken only while
\* fewer than max_workers tasks are running
PoolHasFreeWorker == Cardinality(Running) < PoolWidth

InitFetch ==
    /\ f_pc = "submit"
    /\ f_kind \in {"intraday", "close"}
    /\ f_next = 0
    /\ f_status = [s \in BatchSet |-> "new"]
    /\ f_resp = [s \in BatchSet |-> None]
    /\ f_future = [s \in BatchSet |-> None]
    /\ f_yielded = {}
    /\ f_results = <<>>
    /\ IdleEval
    /\ IdleMain
    /\ IdlePass

\* futures = {executor.submit(_fetch, s): s for s in symbols}: one submit
\* per symbol, in list order
Submit ==
    /\ f_pc = "submit"
    /\ f_next < Len(Batch)
    /\ f_next' = f_next + 1
    /\ f_status' = [f_status EXCEPT ![Batch[f_next + 1]] = "queued"]
    /\ f_pc' = IF f_next + 1 = Len(Batch) THEN "collect" ELSE "submit"
    /\ UNCHANGED <<f_kind, f_resp, f_future, f_yielded, f_results, evalVars, mainVars, passVars>>

\* a free worker of the pool takes the oldest queued task
TaskStart(s) ==
    /\ f_status[s] = "queued"
    /\ PoolHasFreeWorker
    /\ \A t \in Queued : Index(s) <= Index(t)
    /\ f_status' = [f_status EXCEPT ![s] = "running"]
    /\ UNCHANGED <<f_pc, f_kind, f_next, f_resp, f_future, f_yielded, f_results, evalVars, mainVars, passVars>>

\* the task calls the provider and finishes with _fetch's outcome
TaskFinish(s) ==
    /\ f_status[s] = "running"
    /\ \E resp \in Responses(f_kind) :
         /\ f_resp' = [f_resp EXCEPT ![s] = Some(resp)]
         /\ f_future' = [f_future EXCEPT ![s] = Some(RunFetch(f_kind, s, resp))]
         /\ f_status' = [f_status EXCEPT ![s] = AfterAttempt(resp)]
    /\ UNCHANGED <<f_pc, f_kind, f_next, f_yielded, f_results, evalVars, mainVars, passVars>>

\* for future in as_completed(futures): r = future.result(); if r: append.
\* future.result() re-raises what the task raised, which leaves the function.
Collect(s) ==
    /\ f_pc = "collect"
    /\ f_status[s] = "finished"
    /\ s \notin f_yielded
    /\ f_yielded' = f_yielded \cup {s}
    /\ LET fut == f_future[s][1]
       IN  IF fut.raised
             THEN /\ f_pc' = "raised"
                  /\ UNCHANGED f_results
             ELSE /\ f_results' = IF fut.value # None
                                    THEN Append(f_results, fut.value[1])
                                    ELSE f_results
                  /\ UNCHANGED f_pc
    /\ UNCHANGED <<f_kind, f_next, f_status, f_resp, f_future, evalVars, mainVars, passVars>>

\* return results, once as_completed is exhausted
Return ==
    /\ f_pc = "collect"
    /\ f_yielded = BatchSet
    /\ f_pc' = "returned"
    /\ UNCHANGED <<f_kind, f_next, f_status, f_resp, f_future, f_yielded, f_results, evalVars, mainVars, passVars>>

NextFetch ==
    \/ Submit
    \/ \E s \in BatchSet : TaskStart(s)
    \/ \E s \in BatchSet : TaskFinish(s)
    \/ \E s \in BatchSet : Collect(s)
    \/ Return

SpecFetch == InitFetch /\ [][NextFetch]_vars

\* The batch fetch under fair scheduling: the main thread goes on submitting
\* and collecting, and an idle worker takes the next queued task.  Nothing
\* is assumed about how long a task's provider call takes.
SpecFetchFair ==
    /\ SpecFetch
    /\ WF_vars(Submit)
    /\ \A s \in BatchSet : WF_vars(TaskStart(s))
    /\ \A s \in BatchSet : WF_vars(Collect(s))
    /\ WF_vars(Return)

-----------------------------------------------------------------------------
(* SpecEval: one symbol's history is fetched into a record and evaluated *)

\* Bars the provider may return: close in 1/10000, volume in shares.
BarSet ==
    { [close |-> 300000, volume |-> 440],
      [close |-> 500000, volume |-> 440],
      [close |-> 500004, volume |-> 790],
      [close |-> 400000, volume |-> 0],
      [close |-> 400000, volume |-> 792] }

Histories == UNION { [1..k -> BarSet] : k \in 0..MaxBars }

EvalResponses == { HistOk(h) : h \in Histories } \cup { HistErr }

InitEval ==
    /\ e_pc = "input"
    /\ variant \in {"close", "daily"}
    /\ hist \in EvalResponses
    /\ rec = None
    /\ alerts = <<>>
    /\ IdleFetch
    /\ IdleMain
    /\ IdlePass

\* _fetch(symbol) of get_close_data_us / get_daily_data_us
EvalFetch ==
    /\ e_pc = "input"
    /\ rec' = IF variant = "close" THEN FetchClose("GOOG", "us", hist)
                                   ELSE FetchDaily("GOOG", "us", hist)
    /\ e_pc' = IF rec' = None THEN "dropped" ELSE "fetched"
    /\ UNCHANGED <<variant, hist, alerts, fetchVars, mainVars, passVars>>

\* run_close_check: triggered = check_close_alerts(stock)
EvalCheck ==
    /\ e_pc = "fetched"
    /\ variant = "close"
    /\ alerts' = check_close_alerts(rec[1])
    /\ e_pc' = "checked"
    /\ UNCHANGED <<variant, hist, rec, fetchVars, mainVars, passVars>>

NextEval == EvalFetch \/ EvalCheck

SpecEval == InitEval /\ [][NextEval]_vars

\* check_close_alerts(stock) called again on the record it was given before
EvalRecheck ==
    /\ e_pc = "checked"
    /\ alerts' = check_close_alerts(rec[1])
    /\ e_pc' = "rechecked"
    /\ UNCHANGED <<variant, hist, rec, fetchVars, mainVars, passVars>>

NextRecheck == EvalFetch \/ EvalCheck \/ EvalRecheck

\* SpecRecheck: the fetch, the evaluation, and a second evaluation of the record
SpecRecheck == InitEval /\ [][NextRecheck]_vars

-----------------------------------------------------------------------------
(* SpecWindow: the same fetch and evaluation on histories longer than the windows *)

\* A history of n quiet sessions with one session of a high close and heavy
\* volume at position k and one of a low close and no volume at position j
PeakedHistory(n, k, j) ==
    [i \in 1..n |-> IF i = k THEN [close |-> 400000, volume |-> 792]
                    ELSE IF i = j THEN [close |-> 200000, volume |-> 0]
                    ELSE [close |-> 300000, volume |-> 440]]

WindowResponses ==
    { HistOk(PeakedHistory(n, k, j)) : n \in MinBars..MaxHistory, k \in 1..MaxHistory, j \in 1..MaxHistory }

InitWindow ==
    /\ e_pc = "input"
    /\ variant \in {"close", "daily"}
    /\ hist \in WindowResponses
    /\ rec = None
    /\ alerts = <<>>
    /\ IdleFetch
    /\ IdleMain
    /\ IdlePass

SpecWindow == InitWindow /\ [][NextEval]_vars

-----------------------------------------------------------------------------
(* The dedup store *)

\* load_alerted_today: the stored symbols if the file parses and its date is
\* today's, else the empty set (a missing or unreadable file raises inside try)
LoadAlertedToday_IgnoreDate(f, d) ==
    IF f.kind = "entry" THEN f.symbols ELSE {}

LoadAlertedToday(f, d) ==
    IF f.kind = "entry" /\ f.date = d THEN f.symbols ELSE {}

LoadRaises_Uncaught(f) == f.kind # "entry"

\* whether load_alerted_today leaves by an exception: open and json.load are
\* inside try, and except Exception: pass swallows what they raise
LoadRaises(f) == FALSE

-----------------------------------------------------------------------------
(* run_intraday and run_close_check *)

\* _is_us_regular_session: outside UTC 12:00-22:00 closed without asking;
\* else SPY's marketState, and on an exception the window UTC 14:30-21:00
IsUsRegularSession(utc, spy) ==
    IF ~(720 <= utc /\ utc < 1320) THEN FALSE
    ELSE IF spy = "error" THEN 870 <= utc /\ utc < 1260
    ELSE spy = "REGULAR"

\* open_status of run_intraday, as the set of open markets
OpenStatus(utc, spy) ==
    { m \in Markets :
        CASE m = "a"  -> 90 <= utc /\ utc < 420
          [] m = "hk" -> 90 <= utc /\ utc < 480
          [] m = "us" -> IsUsRegularSession(utc, spy) }

MarketOrder == <<"a", "hk", "us">>

IsOpen_Always(mkt, open_status) == TRUE

\* open_status.get(mkt, False)
IsOpen(mkt, open_status) == mkt \in open_status

\* targets = [market] if market else [m for m, o in open_status.items() if o]
Targets(market, openset) ==
    IF market # None THEN <<market[1]>>
    ELSE SelectSeq(MarketOrder, LAMBDA m : m \in openset)

\* clock readings and SPY states an invocation may meet
UtcSamples == {89, 90, 419, 420, 479, 480, 719, 720, 869, 870, 1259, 1260, 1319, 1320}
SpyStates == {"REGULAR", "CLOSED", "error"}

\* live quotes a symbol may have in Spec: failure, +5.00 %, +1.00 %
MainQuotes ==
    { QuoteErr,
      Quote(Some(10500), Some(10000), Some(30), Some(10)),
      Quote(Some(10100), Some(10000), Some(30), Some(10)) }

\* histories a symbol may have in Spec: failure, a new high, nothing to report
MainHistories ==
    { HistErr,
      HistOk(FlatBars(5, [close |-> 300000, volume |-> 440])),
      HistOk(<< [close |-> 300000, volume |-> 440], [close |-> 500000, volume |-> 440],
                [close |-> 300000, volume |-> 440], [close |-> 500000, volume |-> 440],
                [close |-> 400000, volume |-> 0] >>) }

\* every order in which the records of a set can be appended to results
Orders(S) ==
    { f \in [1..Cardinality(S) -> S] :
        \A i, j \in 1..Cardinality(S) : i # j => f[i] # f[j] }

\* get_intraday_a / _hk / _us: the records of the symbols whose _fetch
\* returned one, in the order their futures completed (see SpecFetch)
IntradayResults(m) ==
    UNION { Orders({ FetchIntraday(s, m, q[s])[1] :
                       s \in { u \in Universe(m) : FetchIntraday(u, m, q[u]) # None } }) :
            q \in [Universe(m) -> MainQuotes] }

\* get_close_data_a / _hk / _us, likewise
CloseResults(m) ==
    UNION { Orders({ FetchClose(s, m, h[s])[1] :
                       s \in { u \in Universe(m) : FetchClose(u, m, h[u]) # None } }) :
            h \in [Universe(m) -> MainHistories] }

\* sorted(..., key=lambda x: -abs(x["change_pct"])): a stable sort
InsertByAbsChange(sorted, x) ==
    LET k == Cardinality({ i \in 1..Len(sorted) :
                             Abs(sorted[i].change_pct) >= Abs(x.change_pct) })
    IN  SubSeq(sorted, 1, k) \o <<x>> \o SubSeq(sorted, k + 1, Len(sorted))

RECURSIVE SortByAbsChange(_)
SortByAbsChange(list) ==
    IF list = <<>> THEN <<>>
    ELSE InsertByAbsChange(SortByAbsChange(SubSeq(list, 1, Len(list) - 1)),
                           list[Len(list)])

IsTriggered_Strict(s, alerted_today) ==
    /\ Abs(s.change_pct) > PRICE_CHANGE_THRESHOLD
    /\ s.symbol \notin alerted_today

\* the condition of the list comprehension of run_intraday
IsTriggered(s, alerted_today) ==
    /\ Abs(s.change_pct) >= PRICE_CHANGE_THRESHOLD
    /\ s.symbol \notin alerted_today

Triggered_Unsorted(stock_list, alerted_today) ==
    SelectSeq(stock_list, LAMBDA s : IsTriggered(s, alerted_today))

\* triggered = sorted([s for s in stocks if ...], key=...)
Triggered(stock_list, alerted_today) ==
    SortByAbsChange(SelectSeq(stock_list, LAMBDA s : IsTriggered(s, alerted_today)))

AfterFilter_NoEarlyContinue(trig) == "send"

\* if not triggered: continue
AfterFilter(trig) == IF trig = <<>> THEN "loop" ELSE "send"

\* one row of the intraday table: the emoji is up for change_pct > 0, else down
AlertLine(stock) ==
    [symbol     |-> stock.symbol,
     dir        |-> IF stock.change_pct > 0 THEN "up" ELSE "down",
     change_pct |-> stock.change_pct,
     vol_ratio  |-> stock.vol_ratio]

AlertLines(trig) == [i \in 1..Len(trig) |-> AlertLine(trig[i])]

\* one block of the close-of-day summary
AlertBlock(stock) == [symbol |-> stock.symbol, conds |-> check_close_alerts(stock)]

AlertBlocks_SkippingStored(stock_list) ==
    LET hit == SelectSeq(stock_list, LAMBDA s :
                   /\ check_close_alerts(s) # <<>>
                   /\ s.symbol \notin (IF file.kind = "entry" /\ file.date = today
                                          THEN file.symbols ELSE {}))
    IN  [i \in 1..Len(hit) |-> AlertBlock(hit[i])]

\* alert_blocks of run_close_check: the stocks with a non-empty triggered list
AlertBlocks(stock_list) ==
    LET hit == SelectSeq(stock_list, LAMBDA s : check_close_alerts(s) # <<>>)
    IN  [i \in 1..Len(hit) |-> AlertBlock(hit[i])]

SymbolsOf(list) == { list[i].symbol : i \in 1..Len(list) }

\* send_to_wechat: printed to the console without a token, else posted;
\* a code other than 200 and an exception are logged and swallowed
SendOutcomes == {"ok", "console", "rejected", "exception"}
Delivered(outcome) == outcome \in {"ok", "console"}

SendRaises_Uncaught(outcome) == outcome = "exception"

\* whether send_to_wechat leaves by an exception: requests.post and
\* resp.json() are inside try, and except Exception prints and returns
SendRaises(outcome) == FALSE

\* json.dump into open(.., "w"): written, or open raised (the file stays as
\* it was), or the dump raised after open had truncated the file
WriteOutcomes == {"written", "unwritable", "truncated"}

WriteRaises_Uncaught(outcome) == outcome # "written"

\* whether save_alerted_today leaves by an exception: except Exception prints
WriteRaises(outcome) == FALSE

SymbolsToRecord_None(p) == {}

\* the symbols save_alerted_today receives after the message was handed over
SymbolsToRecord(p) == SymbolsOf(triggered[p])

UpdateExisting_Replace(loaded, new_symbols) == new_symbols

\* existing.update(new_symbols) of save_alerted_today
UpdateExisting(loaded, new_symbols) == loaded \cup new_symbols

ScanOps_LoadFirst == <<"load", "fetch">>

\* the calls of a pass up to the filter: stocks = fetch_map[mkt]() returns
\* when the pool has shut down, then alerted_today = load_alerted_today()
ScanOps == <<"fetch", "load">>

\* the calls of a pass after the filter: get_stock_name for the triggered
\* symbols, send_to_wechat, and the load_alerted_today of save_alerted_today
AlertOps == <<"lookup", "send", "load">>

Init ==
    /\ IdleMain
    /\ IdleEval
    /\ IdleFetch
    /\ IdlePass

\* the calendar date changes
NextDay ==
    /\ today < MaxDay
    /\ today' = today + 1
    /\ UNCHANGED <<file, sent, recorded, procVars, evalVars, fetchVars, passVars>>

\* run_intraday(market) up to the loop: open_status, targets
StartIntraday(p) ==
    /\ pc[p] = "idle"
    /\ \E market \in {None} \cup { Some(m) : m \in Markets } :
       \E utc \in UtcSamples, spy \in SpyStates :
         LET o == OpenStatus(utc, spy)
         IN  /\ open' = [open EXCEPT ![p] = o]
             /\ targets' = [targets EXCEPT ![p] = Targets(market, o)]
    /\ pc' = [pc EXCEPT ![p] = "loop"]
    /\ UNCHANGED <<today, file, sent, recorded, alerted, triggered, savedate,
                   existing, passLog, ops, evalVars, fetchVars, passVars>>

\* for mkt in targets: if not open_status.get(mkt, False): continue
SkipClosed(p) ==
    /\ pc[p] = "loop"
    /\ targets[p] # <<>>
    /\ ~IsOpen(Head(targets[p]), open[p])
    /\ targets' = [targets EXCEPT ![p] = Tail(targets[p])]
    /\ UNCHANGED <<today, file, sent, recorded, pc, open, alerted, triggered,
                   savedate, existing, passLog, ops, evalVars, fetchVars, passVars>>

\* stocks = fetch_map[mkt](); alerted_today = load_alerted_today();
\* triggered = sorted(...); if not triggered: continue
Scan(p) ==
    /\ pc[p] = "loop"
    /\ targets[p] # <<>>
    /\ IsOpen(Head(targets[p]), open[p])
    /\ \E r \in IntradayResults(Head(targets[p])) :
         LET a    == LoadAlertedToday(file, today)
             trig == Triggered(r, a)
         IN  IF LoadRaises(file)
               THEN /\ pc' = [pc EXCEPT ![p] = "crashed"]
                    /\ UNCHANGED <<targets, passLog, alerted, triggered>>
             ELSE IF AfterFilter(trig) = "loop"
               THEN /\ targets' = [targets EXCEPT ![p] = Tail(targets[p])]
                    /\ passLog' = [passLog EXCEPT ![p] =
                           Append(@, [mkt |-> Head(targets[p]), k |-> Len(trig), msgs |-> 0])]
                    /\ UNCHANGED <<pc, alerted, triggered>>
               ELSE /\ alerted' = [alerted EXCEPT ![p] = a]
                    /\ triggered' = [triggered EXCEPT ![p] = trig]
                    /\ pc' = [pc EXCEPT ![p] = "send"]
                    /\ UNCHANGED <<targets, passLog>>
    /\ ops' = [ops EXCEPT ![p] = @ \o ScanOps]
    /\ UNCHANGED <<today, file, sent, recorded, open, savedate, existing,
                   evalVars, fetchVars, passVars>>

\* the alert lines and send_to_wechat(title, content); then the head of
\* save_alerted_today: today = datetime.now()..., existing = load_alerted_today(),
\* existing.update(new_symbols)
Alert(p) ==
    /\ pc[p] = "send"
    /\ \E outcome \in SendOutcomes :
         /\ sent' = sent \cup { [inv |-> p, kind |-> "intraday", day |-> today,
                                 symbols |-> SymbolsOf(AlertLines(triggered[p])),
                                 delivered |-> Delivered(outcome)] }
         /\ passLog' = [passLog EXCEPT ![p] =
                Append(@, [mkt |-> Head(targets[p]), k |-> Len(triggered[p]), msgs |-> 1])]
         /\ IF SendRaises(outcome) \/ LoadRaises(file)
              THEN /\ pc' = [pc EXCEPT ![p] = "crashed"]
                   /\ UNCHANGED <<savedate, existing>>
              ELSE /\ savedate' = [savedate EXCEPT ![p] = today]
                   /\ existing' = [existing EXCEPT ![p] =
                                     UpdateExisting(LoadAlertedToday(file, today),
                                                    SymbolsToRecord(p))]
                   /\ pc' = [pc EXCEPT ![p] = "save_write"]
    /\ alerted' = [alerted EXCEPT ![p] = {}]
    /\ ops' = [ops EXCEPT ![p] = @ \o AlertOps]
    /\ UNCHANGED <<today, file, recorded, open, targets, triggered, evalVars, fetchVars, passVars>>

\* save_alerted_today: json.dump({"date": today, "symbols": list(existing)}),
\* or the exception of an unwritable file, logged; then the next market
SaveWrite(p) ==
    /\ pc[p] = "save_write"
    /\ \E outcome \in WriteOutcomes :
         /\ CASE outcome = "written" ->
                   /\ file' = Entry(savedate[p], existing[p])
                   /\ recorded' = recorded \cup
                         { [inv |-> p, date |-> savedate[p], symbols |-> SymbolsToRecord(p)] }
              [] outcome = "unwritable" -> UNCHANGED <<file, recorded>>
              [] outcome = "truncated" -> file' = Corrupt /\ UNCHANGED recorded
         /\ IF WriteRaises(outcome)
              THEN pc' = [pc EXCEPT ![p] = "crashed"] /\ UNCHANGED targets
              ELSE /\ pc' = [pc EXCEPT ![p] = "loop"]
                   /\ targets' = [targets EXCEPT ![p] = Tail(targets[p])]
    /\ triggered' = [triggered EXCEPT ![p] = <<>>]
    /\ savedate' = [savedate EXCEPT ![p] = 0]
    /\ existing' = [existing EXCEPT ![p] = {}]
    /\ ops' = [ops EXCEPT ![p] = Append(@, "write")]
    /\ UNCHANGED <<today, sent, open, alerted, passLog, evalVars, fetchVars, passVars>>

\* run_close_check(market): the fetch, the alert blocks, the early return,
\* send_to_wechat(title, content)
CloseCheck(p) ==
    /\ pc[p] = "idle"
    /\ \E market \in Markets : \E r \in CloseResults(market) :
         LET blocks == AlertBlocks(r)
         IN  IF blocks = <<>>
               THEN /\ passLog' = [passLog EXCEPT ![p] =
                           <<[mkt |-> market, k |-> 0, msgs |-> 0]>>]
                    /\ pc' = [pc EXCEPT ![p] = "loop"]
                    /\ ops' = [ops EXCEPT ![p] = <<"fetch">>]
                    /\ UNCHANGED sent
               ELSE \E outcome \in SendOutcomes :
                      /\ pc' = [pc EXCEPT ![p] =
                                  IF SendRaises(outcome) THEN "crashed" ELSE "loop"]
                      /\ ops' = [ops EXCEPT ![p] = <<"fetch", "send">>]
                      /\ sent' = sent \cup
                            { [inv |-> p, kind |-> "close", day |-> today,
                               symbols |-> SymbolsOf(blocks),
                               delivered |-> Delivered(outcome)] }
                      /\ passLog' = [passLog EXCEPT ![p] =
                            <<[mkt |-> market, k |-> Len(blocks), msgs |-> 1]>>]
    /\ UNCHANGED <<today, file, recorded, open, targets, alerted, triggered,
                   savedate, existing, evalVars, fetchVars, passVars>>

\* the invocation returns and its process ends
Finish(p) ==
    /\ pc[p] = "loop"
    /\ targets[p] = <<>>
    /\ pc' = [pc EXCEPT ![p] = "done"]
    /\ open' = [open EXCEPT ![p] = {}]
    /\ UNCHANGED <<today, file, sent, recorded, targets, alerted, triggered,
                   savedate, existing, passLog, ops, evalVars, fetchVars, passVars>>

Next ==
    \/ NextDay
    \/ \E p \in Procs : StartIntraday(p)
    \/ \E p \in Procs : SkipClosed(p)
    \/ \E p \in Procs : Scan(p)
    \/ \E p \in Procs : Alert(p)
    \/ \E p \in Procs : SaveWrite(p)
    \/ \E p \in Procs : CloseCheck(p)
    \/ \E p \in Procs : Finish(p)

Spec == Init /\ [][Next]_vars

-----------------------------------------------------------------------------
(* SpecSeq: invocations that do not overlap, on a store that can be written *)

\* no other invocation is under way
Solo(p) == \A q \in Procs \ {p} : pc[q] \in {"idle", "done"}

\* json.dump went through
WriteSucceeds(p) == file' = Entry(savedate[p], existing[p])

NextSeq ==
    \/ NextDay
    \/ \E p \in Procs : Solo(p) /\ StartIntraday(p)
    \/ \E p \in Procs : Solo(p) /\ SkipClosed(p)
    \/ \E p \in Procs : Solo(p) /\ Scan(p)
    \/ \E p \in Procs : Solo(p) /\ Alert(p)
    \/ \E p \in Procs : Solo(p) /\ SaveWrite(p) /\ WriteSucceeds(p)
    \/ \E p \in Procs : Solo(p) /\ CloseCheck(p)
    \/ \E p \in Procs : Solo(p) /\ Finish(p)

SpecSeq == Init /\ [][NextSeq]_vars

-----------------------------------------------------------------------------
(* SpecPass: the filter and the alert table of one intraday pass *)

\* live quotes of SpecPass: failure, +5.00 %, -5.00 %, +4.99 %, -4.99 %,
\* +4.996 % (rounds to 5.00), -7.00 %
PassQuotes ==
    { QuoteErr,
      Quote(Some(105000), Some(100000), Some(30), Some(10)),
      Quote(Some(95000), Some(100000), Some(30), Some(10)),
      Quote(Some(104990), Some(100000), Some(30), None),
      Quote(Some(95010), Some(100000), Some(30), Some(10)),
      Quote(Some(104996), Some(100000), None, Some(10)),
      Quote(Some(93000), Some(100000), Some(30), Some(10)) }

PassResults ==
    UNION { Orders({ FetchIntraday(s, "a", q[s])[1] :
                       s \in { u \in Universe("a") : FetchIntraday(u, "a", q[u]) # None } }) :
            q \in [Universe("a") -> PassQuotes] }

InitPass ==
    /\ i_pc = "input"
    /\ i_stocks \in PassResults
    /\ i_alerted \in SUBSET Universe("a")
    /\ i_triggered = <<>>
    /\ i_lines = <<>>
    /\ IdleEval
    /\ IdleFetch
    /\ IdleMain

\* triggered = sorted([s for s in stocks if ...], key=...)
PassFilter ==
    /\ i_pc = "input"
    /\ i_triggered' = Triggered(i_stocks, i_alerted)
    /\ i_pc' = "filtered"
    /\ UNCHANGED <<i_stocks, i_alerted, i_lines, evalVars, fetchVars, mainVars>>

\* for stock in triggered: alert_lines.append(...)
PassFormat ==
    /\ i_pc = "filtered"
    /\ AfterFilter(i_triggered) = "send"
    /\ i_lines' = AlertLines(i_triggered)
    /\ i_pc' = "formatted"
    /\ UNCHANGED <<i_stocks, i_alerted, i_triggered, evalVars, fetchVars, mainVars>>

NextPass == PassFilter \/ PassFormat

SpecPass == InitPass /\ [][NextPass]_vars

-----------------------------------------------------------------------------
(* SpecClose: the evaluation and the summary of one run_close_check("a"), *)
(* whatever the dedup file holds                                          *)

\* what alerted_today.json may hold when a close-of-day check runs
CloseStores ==
    {NoFile, Corrupt} \cup
    { Entry(d, S) : d \in 1..MaxDay, S \in SUBSET Universe("a") }

InitClose ==
    /\ i_pc = "input"
    /\ i_stocks \in CloseResults("a")
    /\ i_alerted = {}
    /\ i_triggered = <<>>
    /\ i_lines = <<>>
    /\ today \in 1..MaxDay
    /\ file \in CloseStores
    /\ sent = {}
    /\ recorded = {}
    /\ pc = [p \in Procs |-> "idle"]
    /\ open = [p \in Procs |-> {}]
    /\ targets = [p \in Procs |-> <<>>]
    /\ alerted = [p \in Procs |-> {}]
    /\ triggered = [p \in Procs |-> <<>>]
    /\ savedate = [p \in Procs |-> 0]
    /\ existing = [p \in Procs |-> {}]
    /\ passLog = [p \in Procs |-> <<>>]
    /\ ops = [p \in Procs |-> <<>>]
    /\ IdleEval
    /\ IdleFetch

\* for stock in stocks: triggered = check_close_alerts(stock); ... alert_blocks.append(block)
CloseReport ==
    /\ i_pc = "input"
    /\ i_lines' = AlertBlocks(i_stocks)
    /\ i_pc' = "reported"
    /\ UNCHANGED <<i_stocks, i_alerted, i_triggered, evalVars, fetchVars, mainVars>>

\* if not alert_blocks: return; else send_to_wechat(title, content)
CloseSend ==
    /\ i_pc = "reported"
    /\ i_lines # <<>>
    /\ \E outcome \in SendOutcomes :
         sent' = sent \cup { [inv |-> 1, kind |-> "close", day |-> today,
                              symbols |-> SymbolsOf(i_lines),
                              delivered |-> Delivered(outcome)] }
    /\ i_pc' = "sent"
    /\ UNCHANGED <<i_stocks, i_alerted, i_triggered, i_lines, today, file, recorded,
                   procVars, evalVars, fetchVars>>

NextClose == CloseReport \/ CloseSend

SpecClose == InitClose /\ [][NextClose]_vars

-----------------------------------------------------------------------------
(* Claims *)

\* C1: the dedup property.  Two messages of different invocations on the
\* same calendar date never contain the same symbol.
C1_NoRepeatedAlertOnOneDate ==
    \A m1, m2 \in sent :
        (m1.inv # m2.inv /\ m1.day = m2.day) => m1.symbols \cap m2.symbols = {}

\* C2: concurrent-write safety.  Once two invocations have both recorded
\* symbols for the stored date, the stored set contains the symbols of both.
C2_NoLostUpdate ==
    \A r1, r2 \in recorded :
        (r1.inv # r2.inv /\ file.kind = "entry" /\ r1.date = file.date /\ r2.date = file.date)
            => (r1.symbols \cup r2.symbols) \subseteq file.symbols

\* C3: symbols are recorded only after a successful dispatch.  The message of
\* every recorded symbol set was delivered.
C3_RecordedOnlyAfterDelivery ==
    \A r \in recorded : \A m \in sent :
        (m.inv = r.inv /\ m.kind = "intraday" /\ m.day = r.date /\ m.symbols = r.symbols)
            => m.delivered

StaleStore == file.kind = "entry" /\ file.date # today

\* C4: the dedup reset property.  Whenever the stored date differs from the
\* current date, a read of the store (the one of the pass and the one of
\* save_alerted_today) yields the empty set, and the read leaves the file as it is.
C4_StaleStoreReadsEmpty ==
    [][\A p \in Procs :
         /\ (StaleStore /\ pc[p] = "loop" /\ pc'[p] = "send")
              => (alerted'[p] = {} /\ file' = file)
         /\ (StaleStore /\ pc[p] = "send" /\ pc'[p] = "save_write")
              => (existing'[p] = SymbolsOf(triggered[p]) /\ file' = file)]_vars

\* C4 witness: a pass has read a store that holds symbols of another date,
\* got the empty set and triggered a symbol the store holds.
C4_Witness ==
    \E p \in Procs :
        /\ pc[p] = "send"
        /\ StaleStore
        /\ alerted[p] = {}
        /\ SymbolsOf(triggered[p]) \cap file.symbols # {}

RECURSIVE SumField(_, _)
SumField(log, f) ==
    IF log = <<>> THEN 0 ELSE log[1][f] + SumField(Tail(log), f)

\* C5 as stated: a finished invocation with K triggered symbols in all has
\* handed over exactly one message if K > 0 and none if K = 0.
C5_OneMessagePerInvocation ==
    \A p \in Procs :
        pc[p] = "done" =>
            SumField(passLog[p], "msgs") = IF SumField(passLog[p], "k") > 0 THEN 1 ELSE 0

\* C5 amended: for every market an invocation has gone through, exactly one
\* message was handed over if K > 0 symbols of that market triggered and
\* none if K = 0; the messages of the invocation are those of its markets.
C5_OneMessagePerMarketPass ==
    \A p \in Procs :
        /\ \A i \in 1..Len(passLog[p]) :
               passLog[p][i].msgs = IF passLog[p][i].k > 0 THEN 1 ELSE 0
        /\ Cardinality({ m \in sent : m.inv = p })
             = Cardinality({ i \in 1..Len(passLog[p]) : passLog[p][i].k > 0 })
        /\ \A m \in sent : m.symbols # {}

\* C5 witness: a finished invocation one of whose passes triggered two
\* symbols and handed over one message.
C5_Witness ==
    \E p \in Procs :
        /\ pc[p] = "done"
        /\ \E i \in 1..Len(passLog[p]) : passLog[p][i].k = 2 /\ passLog[p][i].msgs = 1

\* The response of a symbol carries usable data: no exception, and a present,
\* non-zero price and previous close (live quote) or at least MinBars bars.
GoodResponse(kind, resp) ==
    /\ ~resp.err
    /\ IF kind = "intraday"
         THEN /\ resp.last_price # None /\ resp.last_price[1] # 0
              /\ resp.previous_close # None /\ resp.previous_close[1] # 0
         ELSE Len(resp.bars) >= MinBars

Succeeded == { s \in BatchSet : GoodResponse(f_kind, f_resp[s][1]) }

\* C6: partial-failure isolation.  Whatever subset of the batch fails, the
\* batch fetch never leaves by an exception, can always go on until it
\* returns, and its result then holds exactly one record for each symbol
\* whose fetch succeeded and none for the others.
C6_PartialFailureIsolation ==
    /\ f_pc # "raised"
    /\ f_pc \in {"submit", "collect"} => ENABLED NextFetch
    /\ f_pc = "returned" =>
         /\ Len(f_results) = Cardinality(Succeeded)
         /\ \A s \in BatchSet :
              (s \in Succeeded) <=> (\E i \in 1..Len(f_results) : f_results[i].symbol = s)

\* C6 witness: a returned batch in which one symbol raised, one had no price
\* data and one succeeded.
C6_Witness ==
    /\ f_pc = "returned"
    /\ f_kind = "intraday"
    /\ \E s \in BatchSet : f_resp[s][1].err
    /\ \E s \in BatchSet : ~f_resp[s][1].err /\ s \notin Succeeded
    /\ Len(f_results) = 1

EvalWindow == WindowBars(hist.bars, IF variant = "close" THEN CloseWindow ELSE DailyWindow)

\* C7: a record whose trailing volume average is zero has an undefined
\* volumeRatio, never the number 0, and a record with a numeric volumeRatio
\* had a trailing average > 0.
C7_VolRatioUndefinedWithoutAverage ==
    e_pc \in {"fetched", "checked"} =>
        /\ SumVolume(EvalWindow) = 0 => rec[1].vol_ratio = None
        /\ rec[1].vol_ratio # None => SumVolume(EvalWindow) > 0

\* C8: Volume Spike fires if and only if the trailing volume average is > 0
\* and volume / trailingVolumeAvg >= the volume multiplier
\* (volume * n / sum >= VOLUME_MULTIPLIER / 100, in integers).
C8_VolumeSpikeIffRatioAtLeastMultiplier ==
    e_pc = "checked" =>
        LET sum == SumVolume(EvalWindow)
            n   == Len(EvalWindow)
            vol == hist.bars[Len(hist.bars)].volume
        IN  HasCond(alerts, "volume") <=>
              (sum > 0 /\ 100 * vol * n >= VOLUME_MULTIPLIER * sum)

CountCond(list, c) == Cardinality({ i \in 1..Len(list) : list[i].cond = c })

\* C9: New Extreme fires as new high exactly when price >= windowHigh, as
\* new low exactly when price < windowHigh and price <= windowLow, and
\* never as both for one record.
C9_NewExtremeHighFirst ==
    e_pc = "checked" =>
        LET s == rec[1]
        IN  /\ HasCond(alerts, "new_high") <=> s.price >= s.max_30d
            /\ HasCond(alerts, "new_low") <=> (s.price < s.max_30d /\ s.price <= s.min_30d)
            /\ CountCond(alerts, "new_high") + CountCond(alerts, "new_low") <= 1

\* C9 witness: a record for which both comparisons hold (price = high = low)
\* was evaluated and reported as a new high.
C9_Witness ==
    /\ e_pc = "checked"
    /\ rec[1].price >= rec[1].max_30d
    /\ rec[1].price <= rec[1].min_30d
    /\ HasCond(alerts, "new_high")

C11_ShortWindowSkipsWindowRules ==
    (e_pc = "checked" /\ Len(EvalWindow) < CloseWindow) =>
        /\ ~HasCond(alerts, "new_high")
        /\ ~HasCond(alerts, "new_low")
        /\ ~HasCond(alerts, "volume")

\* C12: the minimum sample floor.  Every record that reaches rule evaluation
\* (or the daily table) has at least MinBars bars before the current session.
C12_WindowAtLeastFloor ==
    e_pc \in {"fetched", "checked"} => Len(EvalWindow) >= MinBars


\* the positions of the bars that precede the current session, the w most
\* recent of them
PastSessions(w) ==
    { i \in 1..(Len(hist.bars) - 1) : i >= Len(hist.bars) - w }

RECURSIVE VolumeOver(_)
VolumeOver(P) ==
    IF P = {} THEN 0
    ELSE LET i == CHOOSE x \in P : TRUE
         IN  hist.bars[i].volume + VolumeOver(P \ {i})

\* C13: the window high, the window low and the trailing volume average of a
\* record are those of the bars before the current session, the 30 (close)
\* or 7 (daily) most recent of them; the current session's bar is not among them.
C13_WindowExcludesCurrentSession ==
    e_pc \in {"fetched", "checked"} =>
        LET w == IF variant = "close" THEN CloseWindow ELSE DailyWindow
            P == PastSessions(w)
            r == rec[1]
        IN  /\ Cardinality(P) <= w
            /\ Len(hist.bars) \notin P
            /\ r.avg_vol = VolumeOver(P) \div Cardinality(P)
            /\ variant = "close" =>
                 /\ \E i \in P : r.max_30d = Round3(hist.bars[i].close)
                 /\ \A i \in P : r.max_30d >= Round3(hist.bars[i].close)
                 /\ \E i \in P : r.min_30d = Round3(hist.bars[i].close)
                 /\ \A i \in P : r.min_30d <= Round3(hist.bars[i].close)

\* C13 witness: a close-of-day record of a history longer than the window,
\* whose current session closed above the window high and whose session just
\* older than the window closed below the window low.
C13_Witness ==
    /\ e_pc = "fetched"
    /\ variant = "close"
    /\ Len(hist.bars) > CloseWindow + 1
    /\ Round3(hist.bars[Len(hist.bars)].close) > rec[1].max_30d
    /\ Round3(hist.bars[Len(hist.bars) - CloseWindow - 1].close) < rec[1].min_30d


\* C14: the order of a close-of-day summary.  The blocks of the triggered
\* symbols follow the order in which the symbols were submitted for fetching,
\* whatever the order in which the fetch tasks completed.
C14_CloseSummaryInSubmissionOrder ==
    (f_pc = "returned" /\ f_kind = "close") =>
        LET blocks == AlertBlocks(f_results)
        IN  \A i, j \in 1..Len(blocks) :
                i < j => Index(blocks[i].symbol) < Index(blocks[j].symbol)


\* C15: the order of an intraday summary.  The rows of the triggered symbols
\* are in descending order of |changePct|, in whatever order the fetch tasks
\* completed and appended their records.
C15_IntradaySortedByAbsChange ==
    i_pc = "formatted" =>
        \A j, k \in 1..Len(i_lines) :
            j < k => Abs(i_lines[j].change_pct) >= Abs(i_lines[k].change_pct)

\* C15 witness: two triggered records arrived with the smaller move first
\* and the table lists the larger move first.
C15_Witness ==
    /\ i_pc = "formatted"
    /\ Len(i_stocks) = 2
    /\ Len(i_lines) = 2
    /\ Abs(i_stocks[1].change_pct) < Abs(i_stocks[2].change_pct)
    /\ i_lines[1].symbol = i_stocks[2].symbol
    /\ i_lines[2].symbol = i_stocks[1].symbol


\* the steps of invocation p once it has started
ProcStep(p) == SkipClosed(p) \/ Scan(p) \/ Alert(p) \/ SaveWrite(p) \/ Finish(p)

\* C16: a delivery failure is never fatal and never retried.  No invocation
\* ends by an exception; an invocation that has started can always take its
\* next step towards its normal end, also after a failed delivery; and every
\* pass hands its message over at most once.
C16_DeliveryFailureNotFatal ==
    \A p \in Procs :
        /\ pc[p] # "crashed"
        /\ pc[p] \in {"loop", "send", "save_write"} => ENABLED ProcStep(p)
        /\ \A i \in 1..Len(passLog[p]) : passLog[p][i].msgs <= 1
        /\ Cardinality({ m \in sent : m.inv = p }) <= Len(passLog[p])

\* C16 witness: an invocation whose delivery failed has reached its normal end.
C16_Witness ==
    \E p \in Procs : \E m \in sent :
        /\ m.inv = p
        /\ ~m.delivered
        /\ pc[p] = "done"


\* C17: an unreadable or corrupt dedup file reads as the empty store and an
\* unwritable one is only logged.  No invocation ends by an exception and a
\* started invocation can always take its next step; a pass that reads a
\* missing or corrupt file goes on with the empty set to evaluation and
\* dispatch, save_alerted_today then starts from the new symbols alone, and
\* whatever the write does the invocation goes on to the next market.
C17_StoreFailureNotFatal ==
    /\ [](\A p \in Procs :
            /\ pc[p] # "crashed"
            /\ pc[p] \in {"loop", "send", "save_write"} => ENABLED ProcStep(p))
    /\ [][\A p \in Procs :
            /\ (file.kind # "entry" /\ pc[p] = "loop" /\ pc'[p] # "loop")
                 => (pc'[p] \in {"send", "done"} /\ alerted'[p] = {})
            /\ (file.kind # "entry" /\ pc[p] = "send" /\ pc'[p] # "send")
                 => (pc'[p] = "save_write" /\ existing'[p] = SymbolsOf(triggered[p])
                     /\ sent' # sent)
            /\ (pc[p] = "save_write" /\ pc'[p] # "save_write")
                 => (pc'[p] = "loop" /\ targets'[p] = Tail(targets[p]))]_vars

\* C17 witness: the only invocation so far left the file corrupt in an earlier
\* pass, and its next pass has read it as empty, evaluated, and is about to
\* dispatch.
C17_Witness ==
    \E p \in Procs :
        /\ \A q \in Procs \ {p} : pc[q] = "idle"
        /\ file = Corrupt
        /\ Len(passLog[p]) >= 1
        /\ pc[p] = "send"
        /\ alerted[p] = {}
        /\ triggered[p] # <<>>


StoreOps == {"load", "write"}

RecordedOn(d) == UNION { r.symbols : r \in { x \in recorded : x.date = d } }

\* C19: date rollover supersedes the entry.  When save_alerted_today finds an
\* entry of another date it starts from the new symbols alone, under the
\* current date; what it writes is that date with those symbols; and the
\* stored entry never holds a symbol that was not recorded on its own date.
C19_RolloverSupersedesEntry ==
    /\ [](file.kind = "entry" => file.symbols \subseteq RecordedOn(file.date))
    /\ [][\A p \in Procs :
            /\ (StaleStore /\ pc[p] = "send" /\ pc'[p] = "save_write")
                 => (savedate'[p] = today /\ existing'[p] = SymbolsOf(triggered[p]))
            /\ (pc[p] = "save_write" /\ pc'[p] = "loop" /\ file' # file /\ file'.kind = "entry")
                 => (file' = Entry(savedate[p], existing[p])
                     /\ SymbolsOf(triggered[p]) \subseteq file'.symbols)]_vars

\* C19 witness: symbols were recorded on an earlier date, and the store now
\* holds the current date with a later recording and without the earlier symbols.
C19_Witness ==
    /\ file.kind = "entry"
    /\ file.date = today
    /\ file.symbols # {}
    /\ \E r \in recorded :
         /\ r.date < file.date
         /\ r.symbols # {}
         /\ r.symbols \cap file.symbols = {}


\* C20: no per-symbol retry.  Within one batch fetch the provider is asked
\* once for each symbol: a response, once received, is never replaced by that
\* of another attempt and a finished task never runs again; when the batch
\* returns every symbol has had its attempt, and a symbol whose attempt
\* failed has no record in the result.
C20_EachSymbolFetchedOnce ==
    /\ [](f_pc = "returned" =>
            \A s \in BatchSet :
                /\ f_resp[s] # None
                /\ f_status[s] = "finished"
                /\ s \notin Succeeded =>
                     ~\E i \in 1..Len(f_results) : f_results[i].symbol = s)
    /\ [][\A s \in BatchSet :
            /\ f_resp[s] # None => f_resp'[s] = f_resp[s]
            /\ f_status[s] = "finished" => f_status'[s] = "finished"
            /\ f_status[s] = "running" => f_status'[s] \in {"running", "finished"}]_vars

\* C20 witness: a returned close-of-day batch in which two symbols failed
\* (one by an exception, one by too short a history) and were dropped.
C20_Witness ==
    /\ f_pc = "returned"
    /\ f_kind = "close"
    /\ \E s, t \in BatchSet :
         /\ s # t
         /\ f_resp[s][1].err
         /\ ~f_resp[t][1].err /\ t \notin Succeeded
    /\ Len(f_results) = Len(Batch) - 2


\* C21: bounded parallelism.  One task is created per symbol, in list order
\* (the tasks created so far are those of the first f_next symbols, and all
\* of them once the submitting is over), and never more tasks are running
\* than the pool is wide.
C21_BoundedParallelism ==
    /\ Cardinality(Running) <= PoolWidth
    /\ { s \in BatchSet : f_status[s] # "new" } = { Batch[i] : i \in 1..f_next }
    /\ f_pc \in {"collect", "returned"} => f_next = Len(Batch)

\* C21 witness: the pool is full and a task is waiting for a worker.
C21_Witness ==
    /\ Cardinality(Running) = PoolWidth
    /\ Queued # {}


\* C22: one slow symbol does not block the others.  Whichever symbol x is
\* slow, even if its task never ends: if the provider calls of the other
\* symbols end once started, then the task of every other symbol eventually
\* starts and completes.
C22_SlowSymbolDoesNotBlock ==
    \A x \in BatchSet :
        (\A s \in BatchSet \ {x} : WF_vars(TaskFinish(s)))
            => (\A s \in BatchSet \ {x} : <>(f_status[s] = "finished"))

\* C22 witness: one task is still running while the tasks of all the other
\* symbols, some of them submitted after it, have completed.
C22_Witness ==
    \E x \in BatchSet :
        /\ f_status[x] = "running"
        /\ Index(x) = 1
        /\ \A s \in BatchSet \ {x} : f_status[s] = "finished"


C24_EvaluatorLeavesStoreAlone ==
    /\ [][file' = file /\ recorded' = recorded]_vars
    /\ [](i_pc \in {"reported", "sent"} =>
            LET hit == SelectSeq(i_stocks, LAMBDA s : NewExtreme(s) \o VolumeSpike(s) # <<>>)
            IN  /\ Len(i_lines) = Len(hit)
                /\ \A j \in 1..Len(hit) :
                     /\ i_lines[j].symbol = hit[j].symbol
                     /\ i_lines[j].conds = NewExtreme(hit[j]) \o VolumeSpike(hit[j]))

\* C24 witness: the summary of a close-of-day check was sent with a symbol
\* that the file holds under today's date, and the file is as it was.
C24_Witness ==
    /\ i_pc = "sent"
    /\ file.kind = "entry"
    /\ file.date = today
    /\ \E j \in 1..Len(i_lines) : i_lines[j].symbol \in file.symbols


\* C25: with invocations that do not overlap and a store that can be read
\* and written, save_alerted_today(S) leaves the store holding the symbols
\* stored before for that date together with S; the stored set of a date
\* only grows, and holds every symbol recorded on that date so far.
C25_SaveAddsToTodaysSet ==
    /\ [](file.kind = "entry" => file.symbols = RecordedOn(file.date))
    /\ [][\A p \in Procs :
            (pc[p] = "save_write" /\ pc'[p] = "loop") =>
                /\ file'.kind = "entry"
                /\ file'.date = savedate[p]
                /\ file'.symbols =
                     LoadAlertedToday(file, savedate[p]) \cup SymbolsOf(triggered[p])]_vars
    /\ [][(file.kind = "entry" /\ file'.kind = "entry" /\ file'.date = file.date)
            => file.symbols \subseteq file'.symbols]_vars

\* C25 witness: two invocations have recorded symbols on the stored date, one
\* after the other, and the store holds the symbols of both.
C25_Witness ==
    /\ file.kind = "entry"
    /\ \E r1, r2 \in recorded :
         /\ r1.inv # r2.inv
         /\ r1.date = file.date /\ r2.date = file.date
         /\ r1.symbols # {} /\ r2.symbols # {}
         /\ r1.symbols \cap r2.symbols = {}
         /\ (r1.symbols \cup r2.symbols) \subseteq file.symbols


\* the stored symbols of date d
StoredFor(f, d) == IF f.kind = "entry" /\ f.date = d THEN f.symbols ELSE {}

\* C26 as stated: at the end of every intraday pass that sent a message the
\* symbols the store has gained are exactly the symbols of the message, and
\* a step of a pass that sends no message leaves the store unchanged.
C26_StoreGainsMessageSymbols ==
    [][\A p \in Procs :
         /\ (pc[p] = "save_write" /\ pc'[p] = "loop") =>
              /\ file'.kind = "entry"
              /\ file'.symbols \ StoredFor(file, file'.date) = SymbolsOf(triggered[p])
         /\ (pc[p] = "loop" /\ targets'[p] # targets[p]) => file' = file]_vars

\* C26 amended: in every intraday pass the symbols handed to
\* save_alerted_today are the symbols of the message just sent; the write
\* either fails, leaving the file as it was or unreadable, or it leaves an
\* entry of the save's date that contains all of them; and a pass that
\* sends no message, like the sending itself, leaves the file unchanged.
C26_MessageSymbolsHandedToStore ==
    [][\A p \in Procs :
         /\ (pc[p] = "send" /\ pc'[p] = "save_write") =>
              /\ file' = file
              /\ \E m \in sent' :
                   /\ m.inv = p /\ m.kind = "intraday"
                   /\ m.symbols = SymbolsOf(triggered[p])
                   /\ existing'[p] = LoadAlertedToday(file, today) \cup m.symbols
         /\ (pc[p] = "save_write" /\ pc'[p] = "loop") =>
              /\ \E m \in sent : m.inv = p /\ m.symbols = SymbolsOf(triggered[p])
              /\ \/ file' = file /\ recorded' = recorded
                 \/ file' = Corrupt /\ recorded' = recorded
                 \/ /\ file'.kind = "entry"
                    /\ file'.date = savedate[p]
                    /\ SymbolsOf(triggered[p]) \subseteq file'.symbols
                    /\ \E r \in recorded' :
                         r.inv = p /\ r.symbols = SymbolsOf(triggered[p])
         /\ (pc[p] = "loop" /\ targets'[p] # targets[p]) =>
              (file' = file /\ sent' = sent /\ recorded' = recorded)]_vars

\* C26 witness: an invocation has ended after a pass without a message and a
\* pass whose message symbols are in the store, recorded by that invocation.
C26_Witness ==
    \E p \in Procs :
        /\ pc[p] = "done"
        /\ \E i, j \in 1..Len(passLog[p]) : passLog[p][i].msgs = 0 /\ passLog[p][j].msgs = 1
        /\ \E m \in sent : \E r \in recorded :
             /\ m.inv = p /\ r.inv = p
             /\ m.symbols = r.symbols
             /\ file.kind = "entry" /\ m.symbols \subseteq file.symbols


\* an intraday invocation: it has made no call yet, or its first fetch was
\* followed by the read of the store (run_close_check never reads the store)
IsIntraday(p) == ops[p] = <<>> \/ (Len(ops[p]) >= 2 /\ ops[p][2] = "load")

\* C27: run_intraday works on a market only if the market was open when the
\* invocation started.  Every pass of an intraday invocation, with its fetch,
\* its message and its write, is of a market of open_status; the invocation
\* fetches at most once per open market; and if the market it works on or
\* every market is closed, it has fetched, sent and recorded nothing.
C27_OnlyOpenMarkets ==
    \A p \in Procs :
        (IsIntraday(p) /\ pc[p] \in {"loop", "send", "save_write"}) =>
            /\ \A i \in 1..Len(passLog[p]) : passLog[p][i].mkt \in open[p]
            /\ pc[p] \in {"send", "save_write"} => Head(targets[p]) \in open[p]
            /\ Cardinality({ i \in 1..Len(ops[p]) : ops[p][i] = "fetch" }) <= Cardinality(open[p])
            /\ (open[p] = {} \/ ops[p] = <<>>) =>
                 /\ ops[p] = <<>>
                 /\ passLog[p] = <<>>
                 /\ ~\E m \in sent : m.inv = p
                 /\ ~\E r \in recorded : r.inv = p

\* C27 witness: an invocation was asked for a market that is closed while
\* another market is open; it has skipped the market and is about to end
\* without a fetch, a message or a write.
C27_Witness ==
    \E p \in Procs :
        /\ pc[p] = "loop"
        /\ targets[p] = <<>>
        /\ open[p] # {}
        /\ ops[p] = <<>>
        /\ ~\E m \in sent : m.inv = p


====
